---------------------------- MODULE Spec2Model ----------------------------
(***************************************************************************)
(* Feature-toggle annotations: the scan of a source tree into an ordered   *)
(* stream of RawAnnotation tuples, the assembly of that stream into a      *)
(* name -> Record mapping with its structural diagnostics, and the         *)
(* FeatureToggles directive that renders one section per record            *)
(* (code_annotations/contrib/sphinx/extensions/featuretoggles.py).         *)
(*                                                                         *)
(* featuretoggles.py imports find_annotations and quote_value from .base;  *)
(* their bodies, and the scanner behind them, follow the design document   *)
(* (sections 4.1, 4.2 and 7).  Everything else follows featuretoggles.py.  *)
(***************************************************************************)
EXTENDS Integers, Sequences, FiniteSets, TLC

VARIABLES
    root_ok,    \* per invocation: the root path can be read
    tree,       \* the scanned tree: file path -> sequence of annotation lines
    listing,    \* per invocation: the order in which the host lists the files
    unread,     \* per invocation: the files the scanner has not read yet
    stream,     \* per invocation: the RawAnnotation sequence emitted by the scanner
    pos,        \* per invocation: index of the next tuple the assembler consumes
    state,      \* per invocation: AwaitingName | InRecord | Done | Aborted
    records,    \* per invocation: the accumulating name -> Record mapping
    current,    \* per invocation: the name of the open record, or NoRecord
    errors,     \* per invocation: the accumulated diagnostics
    pc,         \* per invocation: scan | find | iterate | finished | aborted
    toggles,    \* per invocation: iter_nodes' local `toggles`
    todo,       \* per invocation: the names the for loop has not visited yet
    sections    \* per invocation: the sections yielded so far

vars == <<root_ok, tree, listing, unread, stream, pos, state, records,
          current, errors, pc, toggles, todo, sections>>

-----------------------------------------------------------------------------
(* Bounds of the model *)

\* longest annotation stream of a single invocation
MaxLen == 4
\* annotation lines per file in the layout of the streams
LinesPerFile == 2
\* longest stream of each of two interleaved invocations
ParLen == 3
\* longest stream of the runs checked for termination
LiveLen == 3
\* annotation lines per file of a scanned tree
ScanLines == 2

-----------------------------------------------------------------------------
(* The annotation grammar used by the directive *)

TOGGLE_NAME == ".. toggle_name:"
TOGGLE_DEFAULT == ".. toggle_default:"
TOGGLE_DESCRIPTION == ".. toggle_description:"
TOGGLE_WARNING == ".. toggle_warning:"

optional_attrs == <<"creation_date", "target_removal_date", "implementation", "use_cases">>

OptTag(opt) == ".. toggle_" \o opt \o ":"

OptionalTags == {OptTag(optional_attrs[k]) : k \in DOMAIN optional_attrs}

AttributeTags == {TOGGLE_DEFAULT, TOGGLE_DESCRIPTION, TOGGLE_WARNING} \cup OptionalTags

\* Python's None.  Scanned values are the trimmed remainder of a line, so no
\* annotation value equals this text.
None == " <None> "

\* The values the renderer treats as "not applicable"
NotApplicable == {None, "None", "n/a", "N/A"}

NOT_DEFINED == "Not defined"

\* the entity names of the model, in sorted() order
NameOrder == <<"ENABLE_X", "ENABLE_Y">>

Names == {NameOrder[k] : k \in DOMAIN NameOrder}

\* the file paths of the model, in path order
FileOrder == <<"a.py", "b.py", "c.py">>

REPO_URL == "https://github.com/openedx/myrepo"
REPO_VERSION == "master"

-----------------------------------------------------------------------------
(* Python dict helpers *)

EmptyDict == [k \in {} |-> k]

\* dict.get(key, default)
Get(d, key, default) == IF key \in DOMAIN d THEN d[key] ELSE default

\* d[key] = value
Put(d, key, value) == [k \in DOMAIN d \cup {key} |-> IF k = key THEN value ELSE d[k]]

-----------------------------------------------------------------------------
(* Record Assembler (design document 4.2, 7) *)

NoRecord == " <no open record> "

\* The assembler before the first tuple
AssemblerStart ==
    [state |-> "AwaitingName", records |-> EmptyDict, current |-> NoRecord, errors |-> <<>>]

\* A name tag whose name has not been seen: open a Record with the tag's provenance
OpenRecord(a, t) ==
    [a EXCEPT !.state = "InRecord",
              !.records = Put(a.records, t.value,
                              ("filename" :> t.file) @@ ("line_number" :> t.line)),
              !.current = t.value]

\* A name tag whose name has been seen: report it, keep the first definition.
\* The record that was open is closed and none is opened.
ReportDuplicate(a, t) ==
    [a EXCEPT !.state = "InRecord",
              !.current = NoRecord,
              !.errors = Append(a.errors,
                  [kind |-> "DuplicateName", name |-> t.value,
                   file |-> t.file, line |-> t.line,
                   original_file |-> a.records[t.value]["filename"],
                   original_line |-> a.records[t.value]["line_number"]])]

\* An attribute tag before any name tag: report it
ReportOrphan(a, t) ==
    [a EXCEPT !.errors = Append(a.errors,
                  [kind |-> "OrphanAttribute", tag |-> t.tag, value |-> t.value,
                   file |-> t.file, line |-> t.line])]

\* An attribute tag inside a record: single-value tags overwrite
FoldAttribute(a, t) ==
    [a EXCEPT !.records = Put(a.records, a.current, Put(a.records[a.current], t.tag, t.value))]

\* One tuple of the stream; group_by_key is the name tag
Consume(a, t, group_by_key) ==
    IF t.tag = group_by_key
    THEN IF t.value \in DOMAIN a.records THEN ReportDuplicate(a, t) ELSE OpenRecord(a, t)
    ELSE IF a.state = "AwaitingName" THEN ReportOrphan(a, t)
         ELSE IF a.current = NoRecord THEN a
              ELSE FoldAttribute(a, t)

RECURSIVE AssembleFrom(_, _, _, _)
AssembleFrom(a, s, k, group_by_key) ==
    IF k > Len(s) THEN [a EXCEPT !.state = "Done"]
    ELSE AssembleFrom(Consume(a, s[k], group_by_key), s, k + 1, group_by_key)

\* The whole pass: the assembler at Done, with the mapping and the diagnostics
Assemble(s, group_by_key) == AssembleFrom(AssemblerStart, s, 1, group_by_key)

\* .base.find_annotations: the mapping, indexed by the value of the group_by_key tag
find_annotations(s, group_by_key) == Assemble(s, group_by_key).records


\* the name tag written without its colon
find_feature_toggles_args_typo ==
    [config_path |-> "FEATURE_TOGGLE_ANNOTATIONS_CONFIG_PATH", group_by_key |-> ".. toggle_name"]

\* find_feature_toggles hands find_annotations the toggle configuration and the
\* tag that opens a record
find_feature_toggles_args ==
    [config_path |-> "FEATURE_TOGGLE_ANNOTATIONS_CONFIG_PATH", group_by_key |-> TOGGLE_NAME]

\* toggles (dict): feature toggles indexed by name
find_feature_toggles(s) == find_annotations(s, find_feature_toggles_args.group_by_key)

-----------------------------------------------------------------------------
(* FeatureToggles.iter_nodes *)

PythonLiterals == {"True", "False", "None"}

\* the texts of the model that float() accepts
FloatTexts == {"0"}

\* .base.quote_value: string-like values are quoted, Python literals are not
quote_value(value) ==
    IF value \in PythonLiterals \cup FloatTexts THEN value ELSE "\"" \o value \o "\""

Node(kind, ids, text, child, refuri) ==
    [kind |-> kind, ids |-> ids, text |-> text, child |-> child, refuri |-> refuri]

\* nodes.title(text=toggle_name, ids=[f"name-{toggle_name}"])
TitleNode(toggle_name) == Node("title", "name-" \o toggle_name, toggle_name, "", "")

\* the description's placeholder used for the default
toggle_default_value_nan(toggle) == Get(toggle, TOGGLE_DEFAULT, "NaN")

\* toggle.get(".. toggle_default:", "Not defined")
toggle_default_value(toggle) == Get(toggle, TOGGLE_DEFAULT, NOT_DEFINED)

\* nodes.literal(text=quote_value(toggle_default_value))
toggle_default_node(toggle) == quote_value(toggle_default_value(toggle))

\* the "Default: " paragraph around the literal node
DefaultNode(toggle_name, toggle) ==
    Node("paragraph", "default-" \o toggle_name, "Default: ", toggle_default_node(toggle), "")

\* the link without its line anchor
SourceUriNoLine(toggle) == REPO_URL \o "/blob/" \o REPO_VERSION \o "/" \o toggle["filename"]

\* "{}/blob/{}/{}#L{}".format(repo_url, repo_version, filename, line_number)
SourceUri(toggle) ==
    REPO_URL \o "/blob/" \o REPO_VERSION \o "/" \o toggle["filename"]
             \o "#L" \o ToString(toggle["line_number"])

\* "{} (line {})".format(filename, line_number)
SourceText(toggle) ==
    toggle["filename"] \o " (line " \o ToString(toggle["line_number"]) \o ")"

\* the "Source: " paragraph around the reference node
SourceNode(toggle_name, toggle) ==
    Node("paragraph", "source-" \o toggle_name, "Source: ", SourceText(toggle), SourceUri(toggle))

\* the description paragraph, emitted for every toggle
DescriptionNode(toggle_name, toggle) ==
    Node("paragraph", "description-" \o toggle_name,
         "Desc: " \o Get(toggle, TOGGLE_DESCRIPTION, "NaN"), "", "")

\* the check without the upper-case sentinel
DisplayedUnlessLower(toggle, tag) == Get(toggle, tag, None) \notin {None, "None", "n/a"}

\* toggle.get(tag) not in (None, "None", "n/a", "N/A")
Displayed(toggle, tag) == Get(toggle, tag, None) \notin NotApplicable

WarningNodes(toggle_name, toggle) ==
    IF Displayed(toggle, TOGGLE_WARNING)
    THEN <<Node("warning", "warning-" \o toggle_name, "", toggle[TOGGLE_WARNING], "")>>
    ELSE <<>>

\* opt.title().replace("_", " ")
OptTitle(opt) ==
    CASE opt = "creation_date" -> "Creation Date"
      [] opt = "target_removal_date" -> "Target Removal Date"
      [] opt = "implementation" -> "Implementation"
      [] opt = "use_cases" -> "Use Cases"

RECURSIVE OptionalNodes(_, _, _)
OptionalNodes(toggle_name, toggle, k) ==
    IF k > Len(optional_attrs) THEN <<>>
    ELSE LET opt == optional_attrs[k]
         IN  (IF Displayed(toggle, OptTag(opt))
              THEN <<Node("paragraph", opt \o "-" \o toggle_name,
                          OptTitle(opt) \o ": " \o toggle[OptTag(opt)], "", "")>>
              ELSE <<>>) \o OptionalNodes(toggle_name, toggle, k + 1)

\* one iteration of the for loop: the section of one toggle
toggle_section(toggle_name, toggle) ==
    [ids |-> "featuretoggle-" \o toggle_name,
     children |-> <<TitleNode(toggle_name), DefaultNode(toggle_name, toggle),
                    SourceNode(toggle_name, toggle), DescriptionNode(toggle_name, toggle)>>
                  \o WarningNodes(toggle_name, toggle)
                  \o OptionalNodes(toggle_name, toggle, 1)]

\* sorted(toggles)
SortedNames(d) == SelectSeq(NameOrder, LAMBDA n : n \in DOMAIN d)

RECURSIVE SectionsOf(_, _)
SectionsOf(d, names) ==
    IF names = <<>> THEN <<>>
    ELSE <<toggle_section(Head(names), d[Head(names)])>> \o SectionsOf(d, Tail(names))

\* FeatureToggles.run: list(self.iter_nodes())
run(s) == LET d == find_feature_toggles(s) IN SectionsOf(d, SortedNames(d))

\* each call keeps its `toggles` in the first caller's frame
SharedFrame(i) == 1

\* each call of iter_nodes keeps `toggles` and its loop position in its own frame
Frame(i) == i

\* what setup(app) returns to Sphinx
setup == [version |-> "0.1", parallel_read_safe |-> TRUE, parallel_write_safe |-> TRUE]

-----------------------------------------------------------------------------
(* Annotation Scanner (design document 4.1) *)

ConfiguredTags == {TOGGLE_NAME} \cup AttributeTags

Range(f) == {f[k] : k \in DOMAIN f}

\* the entries as the host lists them
SortEntriesAsListed(entries) == entries

\* directory entries are sorted into path order before they are read
SortEntries(entries) == SelectSeq(FileOrder, LAMBDA f : f \in Range(entries))

\* the annotations of one file, by ascending 1-based line number
FileAnnotations(t, f) ==
    LET matching == SelectSeq([k \in DOMAIN t[f] |-> k], LAMBDA k : t[f][k][1] \in ConfiguredTags)
    IN  [j \in DOMAIN matching |->
            [tag |-> t[f][matching[j]][1], value |-> t[f][matching[j]][2],
             file |-> f, line |-> matching[j]]]

-----------------------------------------------------------------------------
(* Inputs *)

Invs == DOMAIN pc

\* the place of the k-th tuple of a stream: files in path order, lines ascending
FileAt(k) == FileOrder[((k - 1) \div LinesPerFile) + 1]
LineAt(k) == ((k - 1) % LinesPerFile) + 1

Tuple(payload, k) ==
    [tag |-> payload[1], value |-> payload[2], file |-> FileAt(k), line |-> LineAt(k)]

Located(payloads) == [k \in DOMAIN payloads |-> Tuple(payloads[k], k)]

SeqsUpTo(S, n) == UNION {[1..m -> S] : m \in 0..n}

NamePayloads == {<<TOGGLE_NAME, n>> : n \in Names}

Payloads ==
    NamePayloads
    \cup {<<TOGGLE_DEFAULT, v>> : v \in {"False", NOT_DEFINED}}
    \cup {<<TOGGLE_DESCRIPTION, v>> : v \in {"enables X", "None"}}
    \cup {<<TOGGLE_WARNING, v>> : v \in {"careful", "n/a"}}

Streams == {Located(p) : p \in SeqsUpTo(Payloads, MaxLen)}

Quiet(I) ==
    /\ tree = EmptyDict
    /\ listing = [i \in I |-> <<>>]
    /\ unread = [i \in I |-> <<>>]

Fresh(I) ==
    /\ pos = [i \in I |-> 1]
    /\ state = [i \in I |-> "AwaitingName"]
    /\ records = [i \in I |-> EmptyDict]
    /\ current = [i \in I |-> NoRecord]
    /\ errors = [i \in I |-> <<>>]
    /\ toggles = [i \in I |-> EmptyDict]
    /\ todo = [i \in I |-> <<>>]
    /\ sections = [i \in I |-> <<>>]

\* one invocation of the directive on the stream the scanner hands it
Init ==
    /\ root_ok \in [{1} -> BOOLEAN]
    /\ stream \in [{1} -> Streams]
    /\ pc = [i \in {1} |-> "find"]
    /\ Quiet({1})
    /\ Fresh({1})

-----------------------------------------------------------------------------
(* Steps of one invocation *)

Assembler(i) ==
    [state |-> state[i], records |-> records[i], current |-> current[i], errors |-> errors[i]]

Reading(i) == pc[i] = "find" /\ root_ok[i] /\ pos[i] <= Len(stream[i])

NextTuple(i) == stream[i][pos[i]]

IsNameTag(i) == NextTuple(i).tag = find_feature_toggles_args.group_by_key

Consumed(i) ==
    LET a == Consume(Assembler(i), NextTuple(i), find_feature_toggles_args.group_by_key)
    IN  /\ state' = [state EXCEPT ![i] = a.state]
        /\ records' = [records EXCEPT ![i] = a.records]
        /\ current' = [current EXCEPT ![i] = a.current]
        /\ errors' = [errors EXCEPT ![i] = a.errors]
        /\ pos' = [pos EXCEPT ![i] = @ + 1]
        /\ UNCHANGED <<root_ok, tree, listing, unread, stream, pc, toggles, todo, sections>>

\* total I/O failure on the root path: the scan aborts
RootFailure(i) ==
    /\ pc[i] = "find"
    /\ ~root_ok[i]
    /\ pc' = [pc EXCEPT ![i] = "aborted"]
    /\ state' = [state EXCEPT ![i] = "Aborted"]
    /\ UNCHANGED <<root_ok, tree, listing, unread, stream, pos, records, current,
                   errors, toggles, todo, sections>>

OrphanAttributeStep(i) ==
    /\ Reading(i)
    /\ ~IsNameTag(i)
    /\ state[i] = "AwaitingName"
    /\ Consumed(i)

OpenRecordStep(i) ==
    /\ Reading(i)
    /\ IsNameTag(i)
    /\ NextTuple(i).value \notin DOMAIN records[i]
    /\ Consumed(i)

DuplicateNameStep(i) ==
    /\ Reading(i)
    /\ IsNameTag(i)
    /\ NextTuple(i).value \in DOMAIN records[i]
    /\ Consumed(i)

FoldAttributeStep(i) ==
    /\ Reading(i)
    /\ ~IsNameTag(i)
    /\ state[i] = "InRecord"
    /\ current[i] # NoRecord
    /\ Consumed(i)

\* an attribute of a rejected duplicate definition
DiscardAttributeStep(i) ==
    /\ Reading(i)
    /\ ~IsNameTag(i)
    /\ state[i] = "InRecord"
    /\ current[i] = NoRecord
    /\ Consumed(i)

\* end of stream: Done; the mapping becomes iter_nodes' `toggles`
EndOfStream(i) ==
    /\ pc[i] = "find"
    /\ root_ok[i]
    /\ pos[i] > Len(stream[i])
    /\ state' = [state EXCEPT ![i] = "Done"]
    /\ current' = [current EXCEPT ![i] = NoRecord]
    /\ toggles' = [toggles EXCEPT ![Frame(i)] = records[i]]
    /\ todo' = [todo EXCEPT ![i] = SortedNames(records[i])]
    /\ pc' = [pc EXCEPT ![i] = "iterate"]
    /\ UNCHANGED <<root_ok, tree, listing, unread, stream, pos, records, errors, sections>>

\* one iteration of `for toggle_name in sorted(toggles)`; toggles[toggle_name]
\* raises KeyError when the name is not in the mapping
YieldSection(i) ==
    /\ pc[i] = "iterate"
    /\ todo[i] # <<>>
    /\ LET toggle_name == Head(todo[i])
       IN  IF toggle_name \in DOMAIN toggles[Frame(i)]
           THEN /\ sections' = [sections EXCEPT ![i] =
                        Append(@, toggle_section(toggle_name, toggles[Frame(i)][toggle_name]))]
                /\ todo' = [todo EXCEPT ![i] = Tail(@)]
                /\ pc' = pc
           ELSE /\ pc' = [pc EXCEPT ![i] = "KeyError"]
                /\ UNCHANGED <<sections, todo>>
    /\ UNCHANGED <<root_ok, tree, listing, unread, stream, pos, state, records,
                   current, errors, toggles>>

\* the generator is exhausted
Finish(i) ==
    /\ pc[i] = "iterate"
    /\ todo[i] = <<>>
    /\ pc' = [pc EXCEPT ![i] = "finished"]
    /\ UNCHANGED <<root_ok, tree, listing, unread, stream, pos, state, records,
                   current, errors, toggles, todo, sections>>

Next ==
    \/ \E i \in Invs : RootFailure(i)
    \/ \E i \in Invs : OrphanAttributeStep(i)
    \/ \E i \in Invs : OpenRecordStep(i)
    \/ \E i \in Invs : DuplicateNameStep(i)
    \/ \E i \in Invs : FoldAttributeStep(i)
    \/ \E i \in Invs : DiscardAttributeStep(i)
    \/ \E i \in Invs : EndOfStream(i)
    \/ \E i \in Invs : YieldSection(i)
    \/ \E i \in Invs : Finish(i)

Spec == Init /\ [][Next]_vars

LiveStreams == {Located(p) : p \in SeqsUpTo(Payloads, LiveLen)}

InitLive ==
    /\ root_ok \in [{1} -> BOOLEAN]
    /\ stream \in [{1} -> LiveStreams]
    /\ pc = [i \in {1} |-> "find"]
    /\ Quiet({1})
    /\ Fresh({1})

\* a synchronous single pass always takes its next step
FairSpec == InitLive /\ [][Next]_vars /\ WF_vars(Next)

-----------------------------------------------------------------------------
(* What the design document expects of a stream, stated on the stream itself *)

IsNameTuple(t) == t.tag = ".. toggle_name:"

Min(S) == CHOOSE k \in S : \A j \in S : k <= j
Max(S) == CHOOSE k \in S : \A j \in S : k >= j

\* the places where name n is declared
NameIdx(s, n) == {k \in DOMAIN s : IsNameTuple(s[k]) /\ s[k].value = n}

NamesIn(s) == {s[k].value : k \in {j \in DOMAIN s : IsNameTuple(s[j])}}

\* the attribute tuples before the first name tag
OrphanIdx(s) == {k \in DOMAIN s : \A j \in 1..k : ~IsNameTuple(s[j])}

\* the name tags whose name was declared before
DuplicateIdx(s) ==
    {k \in DOMAIN s : IsNameTuple(s[k]) /\ \E j \in 1..(k - 1) : j \in NameIdx(s, s[k].value)}

\* the block of the name tag at k: the tuples up to the next name tag
BlockIdx(s, k) ==
    {j \in (k + 1)..Len(s) : \A m \in (k + 1)..j : ~IsNameTuple(s[m])}

BlockTags(s, k) == {s[j].tag : j \in BlockIdx(s, k)}

LastValue(s, k, tag) == s[Max({j \in BlockIdx(s, k) : s[j].tag = tag})].value

\* rec is exactly what the block of the name tag at k says
RecordOfBlock(rec, s, k) ==
    /\ DOMAIN rec = {"filename", "line_number"} \cup BlockTags(s, k)
    /\ rec["filename"] = s[k].file
    /\ rec["line_number"] = s[k].line
    /\ \A tag \in BlockTags(s, k) : rec[tag] = LastValue(s, k, tag)

WellFormed(s) ==
    /\ OrphanIdx(s) = {}
    /\ DuplicateIdx(s) = {}

\* find_feature_toggles has returned into iter_nodes
Returned(i) == pc[i] \in {"iterate", "finished"}

Diagnostics(i, kind) == {k \in DOMAIN errors[i] : errors[i][k].kind = kind}

-----------------------------------------------------------------------------
(* Claims *)

\* C1: a name declared exactly twice yields exactly one DuplicateName diagnostic
\* for it, carrying the name and the place of the second declaration, and the
\* returned mapping holds its Record with the provenance of the first declaration.
C1_DuplicateNameKeepsFirst ==
    \A i \in Invs : Returned(i) =>
        \A n \in Names : Cardinality(NameIdx(stream[i], n)) = 2 =>
            LET first == Min(NameIdx(stream[i], n))
                second == Max(NameIdx(stream[i], n))
                dups == {k \in Diagnostics(i, "DuplicateName") : errors[i][k].name = n}
            IN  /\ Cardinality(dups) = 1
                /\ \A k \in dups :
                      /\ errors[i][k].file = stream[i][second].file
                      /\ errors[i][k].line = stream[i][second].line
                /\ n \in DOMAIN toggles[i]
                /\ toggles[i][n]["filename"] = stream[i][first].file
                /\ toggles[i][n]["line_number"] = stream[i][first].line

C1_Witness ==
    \E i \in Invs :
        /\ pc[i] = "finished"
        /\ \E n \in Names :
              /\ Cardinality(NameIdx(stream[i], n)) = 2
              /\ Cardinality(Diagnostics(i, "DuplicateName")) = 1
              /\ stream[i][Max(NameIdx(stream[i], n))].file # toggles[i][n]["filename"]

\* C2: the attributes after a duplicate name tag do not change the retained
\* record: it holds exactly the attributes between the first name tag of its name
\* and the next name tag.
C2_DuplicateBlockIgnored ==
    \A i \in Invs : Returned(i) =>
        \A n \in Names : Cardinality(NameIdx(stream[i], n)) >= 2 =>
            /\ n \in DOMAIN toggles[i]
            /\ RecordOfBlock(toggles[i][n], stream[i], Min(NameIdx(stream[i], n)))

C2_Witness ==
    \E i \in Invs :
        /\ pc[i] = "finished"
        /\ \E k \in DuplicateIdx(stream[i]) :
              /\ BlockTags(stream[i], k) # {}
              /\ \A tag \in BlockTags(stream[i], k) :
                    tag \notin DOMAIN toggles[i][stream[i][k].value]

\* C3: every attribute tuple before the first name tag yields exactly one
\* OrphanAttribute diagnostic, and no Record gains its value: a Record holds that
\* value only where a tuple of the record's own block carries it.
C3_OrphanAttributeReported ==
    \A i \in Invs : Returned(i) =>
        /\ Cardinality(Diagnostics(i, "OrphanAttribute")) = Cardinality(OrphanIdx(stream[i]))
        /\ \A k \in OrphanIdx(stream[i]) :
              /\ Cardinality({d \in Diagnostics(i, "OrphanAttribute") :
                                /\ errors[i][d].file = stream[i][k].file
                                /\ errors[i][d].line = stream[i][k].line
                                /\ errors[i][d].tag = stream[i][k].tag
                                /\ errors[i][d].value = stream[i][k].value}) = 1
              /\ \A n \in DOMAIN toggles[i] :
                    (/\ stream[i][k].tag \in DOMAIN toggles[i][n]
                     /\ toggles[i][n][stream[i][k].tag] = stream[i][k].value)
                    => \E j \in BlockIdx(stream[i], Min(NameIdx(stream[i], n))) :
                          /\ stream[i][j].tag = stream[i][k].tag
                          /\ stream[i][j].value = stream[i][k].value

C3_Witness ==
    \E i \in Invs :
        /\ pc[i] = "finished"
        /\ 1 \in OrphanIdx(stream[i])
        /\ toggles[i] # EmptyDict
        /\ \A n \in DOMAIN toggles[i] : stream[i][1].tag \notin DOMAIN toggles[i][n]

\* C4: a well-formed stream yields one Record per distinct name tag and no others,
\* no diagnostics, and in each Record every tag holds the last value it has
\* between the record's name tag and the next name tag.
C4_WellFormedAssembly ==
    \A i \in Invs : (Returned(i) /\ WellFormed(stream[i])) =>
        /\ DOMAIN toggles[i] = NamesIn(stream[i])
        /\ errors[i] = <<>>
        /\ \A n \in NamesIn(stream[i]) :
              RecordOfBlock(toggles[i][n], stream[i], Min(NameIdx(stream[i], n)))

C4_Witness ==
    \E i \in Invs :
        /\ pc[i] = "finished"
        /\ WellFormed(stream[i])
        /\ Cardinality(NamesIn(stream[i])) = 2
        /\ \E k \in NameIdx(stream[i], "ENABLE_X") :
              /\ {k + 1, k + 2} \subseteq BlockIdx(stream[i], k)
              /\ stream[i][k + 1].tag = stream[i][k + 2].tag
              /\ stream[i][k + 1].value # stream[i][k + 2].value
              /\ toggles[i]["ENABLE_X"][stream[i][k + 1].tag] = stream[i][k + 2].value


\* the k-th smallest element of a set of numbers
Kth(S, k) == CHOOSE x \in S : Cardinality({y \in S : y <= x}) = k

Prefix(i) == SubSeq(stream[i], 1, pos[i] - 1)

\* the structural problems of a stream, in stream order
ProblemIdx(s) == OrphanIdx(s) \cup DuplicateIdx(s)

\* errors is exactly the list of the problems of s, one entry each, in order
DiagnosticsOf(errs, s) ==
    /\ Len(errs) = Cardinality(ProblemIdx(s))
    /\ \A k \in DOMAIN errs :
          LET at == Kth(ProblemIdx(s), k)
          IN  /\ errs[k].file = s[at].file
              /\ errs[k].line = s[at].line
              /\ errs[k].kind = (IF IsNameTuple(s[at]) THEN "DuplicateName" ELSE "OrphanAttribute")
              /\ IF IsNameTuple(s[at])
                 THEN errs[k].name = s[at].value
                 ELSE errs[k].tag = s[at].tag /\ errs[k].value = s[at].value

Invocations == {1, 2}

C7_Accumulated ==
    \A i \in Invs :
        /\ root_ok[i] => (state[i] # "Aborted" /\ pc[i] \notin {"aborted", "KeyError"})
        /\ state[i] = "Aborted" => ~root_ok[i]
        /\ state[i] \in {"AwaitingName", "InRecord", "Done"} =>
              DiagnosticsOf(errors[i], Prefix(i))
        /\ state[i] = "Done" =>
              /\ pos[i] = Len(stream[i]) + 1
              /\ toggles[i] = records[i]
              /\ DOMAIN toggles[i] = NamesIn(stream[i])

-----------------------------------------------------------------------------

\* the section of record n among those yielded
SectionsNamed(i, n) == {k \in DOMAIN sections[i] : sections[i][k].ids = "featuretoggle-" \o n}

ChildrenWithId(section, ids) == {c \in DOMAIN section.children : section.children[c].ids = ids}

\* every Record carries the place of the first name tag of its name
C10_Provenance ==
    \A i \in Invs : \A n \in DOMAIN records[i] :
        /\ NameIdx(Prefix(i), n) # {}
        /\ DOMAIN records[i][n] \cap {"filename", "line_number"} = {"filename", "line_number"}
        /\ records[i][n]["filename"] = stream[i][Min(NameIdx(Prefix(i), n))].file
        /\ records[i][n]["line_number"] = stream[i][Min(NameIdx(Prefix(i), n))].line

\* a step keeps every Record and its provenance, and changes only the Record
\* opened by the most recent name tag, and only on an attribute tuple
C10_Step ==
    \A i \in Invs : \A n \in DOMAIN records[i] :
        /\ n \in DOMAIN records'[i]
        /\ records'[i][n]["filename"] = records[i][n]["filename"]
        /\ records'[i][n]["line_number"] = records[i][n]["line_number"]
        /\ records'[i][n] # records[i][n] =>
              LET names == {k \in DOMAIN Prefix(i) : IsNameTuple(stream[i][k])}
              IN  /\ pos'[i] = pos[i] + 1
                  /\ ~IsNameTuple(stream[i][pos[i]])
                  /\ stream[i][Max(names)].value = n
                  /\ Max(names) = Min(NameIdx(stream[i], n))

\* the source link of a section is built from the provenance of its Record
C10_SourceLink ==
    \A i \in Invs : \A n \in Names : \A k \in SectionsNamed(i, n) :
        LET first == stream[i][Min(NameIdx(stream[i], n))]
            at == ChildrenWithId(sections[i][k], "source-" \o n)
        IN  /\ Cardinality(at) = 1
            /\ \A c \in at :
                  /\ sections[i][k].children[c].refuri =
                        "https://github.com/openedx/myrepo/blob/master/" \o first.file
                            \o "#L" \o ToString(first.line)
                  /\ sections[i][k].children[c].child =
                        first.file \o " (line " \o ToString(first.line) \o ")"

\* C10: in every assembler state each Record has the provenance of the first name
\* tag of its name, no later tuple changes it, an attribute tuple is folded only
\* into the Record opened by the most recent name tag, and the source link of a
\* record's section is built from that provenance.
C10_ProvenanceFixed ==
    /\ [](C10_Provenance /\ C10_SourceLink)
    /\ [][C10_Step]_vars

C10_Witness ==
    \E i \in Invs :
        /\ pc[i] = "finished"
        /\ Cardinality(NameIdx(stream[i], "ENABLE_X")) = 2
        /\ Cardinality(NameIdx(stream[i], "ENABLE_Y")) = 1
        /\ Len(sections[i]) = 2
        /\ Min(NameIdx(stream[i], "ENABLE_Y")) < Max(NameIdx(stream[i], "ENABLE_X"))
        /\ Len(stream[i]) = 4
        /\ ~IsNameTuple(stream[i][4])
        /\ toggles[i]["ENABLE_X"]["line_number"] = 1

-----------------------------------------------------------------------------

-----------------------------------------------------------------------------
(* The renderer on one record with every mix of attribute values *)

RenderTagOrder ==
    <<TOGGLE_DEFAULT, TOGGLE_DESCRIPTION, TOGGLE_WARNING>>
    \o [k \in DOMAIN optional_attrs |-> OptTag(optional_attrs[k])]

Absent == " <absent> "

RenderValues(tag) ==
    IF tag = TOGGLE_DEFAULT THEN {Absent, "False", "0", NOT_DEFINED}
    ELSE {Absent, "None", "n/a", "N/A"}
         \cup (CASE tag = TOGGLE_DESCRIPTION -> {"enables X"}
                 [] tag = TOGGLE_WARNING -> {"careful"}
                 [] tag = OptTag("creation_date") -> {"2020-01-01"}
                 [] tag = OptTag("target_removal_date") -> {"2021-01-01"}
                 [] tag = OptTag("implementation") -> {"DjangoSetting"}
                 [] tag = OptTag("use_cases") -> {"opt_in"})

\* one block in one file: the name tag on line 2, the chosen attributes below it
RenderStream(c) ==
    LET present == SelectSeq([k \in DOMAIN RenderTagOrder |-> k], LAMBDA k : c[k] # Absent)
        payloads == <<<<TOGGLE_NAME, "ENABLE_X">>>>
                    \o [j \in DOMAIN present |-> <<RenderTagOrder[present[j]], c[present[j]]>>]
    IN  [k \in DOMAIN payloads |->
            [tag |-> payloads[k][1], value |-> payloads[k][2], file |-> "toggles.py", line |-> k + 1]]

\* iter_nodes as find_feature_toggles returns into it
InitRender ==
    /\ root_ok = [i \in {1} |-> TRUE]
    /\ \E v1 \in RenderValues(RenderTagOrder[1]), v2 \in RenderValues(RenderTagOrder[2]),
          v3 \in RenderValues(RenderTagOrder[3]), v4 \in RenderValues(RenderTagOrder[4]),
          v5 \in RenderValues(RenderTagOrder[5]), v6 \in RenderValues(RenderTagOrder[6]),
          v7 \in RenderValues(RenderTagOrder[7]) :
          stream = [i \in {1} |-> RenderStream(<<v1, v2, v3, v4, v5, v6, v7>>)]
    /\ pc = [i \in {1} |-> "iterate"]
    /\ Quiet({1})
    /\ pos = [i \in {1} |-> Len(stream[i]) + 1]
    /\ state = [i \in {1} |-> "Done"]
    /\ records = [i \in {1} |-> find_feature_toggles(stream[i])]
    /\ current = [i \in {1} |-> NoRecord]
    /\ errors = [i \in {1} |-> Assemble(stream[i], find_feature_toggles_args.group_by_key).errors]
    /\ toggles = records
    /\ todo = [i \in {1} |-> SortedNames(toggles[i])]
    /\ sections = [i \in {1} |-> <<>>]

NextRender ==
    \/ \E i \in Invs : YieldSection(i)
    \/ \E i \in Invs : Finish(i)

SpecRender == InitRender /\ [][NextRender]_vars

SentinelTexts == {"None", "n/a", "N/A"}

\* the ids prefix of the node that displays an attribute
DisplayId(tag) ==
    CASE tag = ".. toggle_description:" -> "description"
      [] tag = ".. toggle_warning:" -> "warning"
      [] tag = ".. toggle_creation_date:" -> "creation_date"
      [] tag = ".. toggle_target_removal_date:" -> "target_removal_date"
      [] tag = ".. toggle_implementation:" -> "implementation"
      [] tag = ".. toggle_use_cases:" -> "use_cases"

SuppressedTags ==
    {".. toggle_warning:", ".. toggle_creation_date:", ".. toggle_target_removal_date:",
     ".. toggle_implementation:", ".. toggle_use_cases:"}

\* no node of the section of n displays the attribute
NotDisplayed(i, n, tag) ==
    \A k \in SectionsNamed(i, n) : ChildrenWithId(sections[i][k], DisplayId(tag) \o "-" \o n) = {}

\* C5 as claimed: an optional attribute (description included) whose value is a
\* "not applicable" sentinel gets no display node in the record's section.
C5_SentinelNeverDisplayed ==
    \A i \in Invs : \A n \in DOMAIN toggles[i] :
        \A tag \in SuppressedTags \cup {".. toggle_description:"} :
            (tag \in DOMAIN toggles[i][n] /\ toggles[i][n][tag] \in SentinelTexts)
                => NotDisplayed(i, n, tag)

\* C5 as amended: a warning, creation date, target-removal date, implementation
\* note or use case whose value is a sentinel gets no display node; the
\* description paragraph is emitted for every record, sentinel or not.
C5_SentinelSuppressed ==
    \A i \in Invs : \A n \in DOMAIN toggles[i] :
        /\ \A tag \in SuppressedTags :
              (tag \in DOMAIN toggles[i][n] /\ toggles[i][n][tag] \in SentinelTexts)
                  => NotDisplayed(i, n, tag)
        /\ \A k \in SectionsNamed(i, n) :
              LET at == ChildrenWithId(sections[i][k], "description-" \o n)
              IN  /\ Cardinality(at) = 1
                  /\ \A c \in at :
                        sections[i][k].children[c].text =
                            "Desc: " \o (IF ".. toggle_description:" \in DOMAIN toggles[i][n]
                                         THEN toggles[i][n][".. toggle_description:"]
                                         ELSE "NaN")

C5_Witness ==
    \E i \in Invs :
        /\ pc[i] = "finished"
        /\ Len(sections[i]) = 1
        /\ toggles[i]["ENABLE_X"] =
              [k \in {"filename", "line_number"} \cup {RenderTagOrder[j] : j \in 2..7} |->
                  CASE k = "filename" -> "toggles.py"
                    [] k = "line_number" -> 2
                    [] k = ".. toggle_description:" -> "None"
                    [] k = ".. toggle_warning:" -> "N/A"
                    [] k = ".. toggle_creation_date:" -> "n/a"
                    [] k = ".. toggle_target_removal_date:" -> "None"
                    [] k = ".. toggle_implementation:" -> "N/A"
                    [] k = ".. toggle_use_cases:" -> "n/a"]
        /\ Len(sections[i][1].children) = 4
        /\ sections[i][1].children[4].text = "Desc: None"


-----------------------------------------------------------------------------
(* Two scans of one tree *)

ScanFiles == {"a.py", "b.py"}

\* a line of a file: an annotation, or a comment the grammar does not know
LineKinds == {<<TOGGLE_NAME, "ENABLE_X">>, <<TOGGLE_DEFAULT, "False">>, <<"#", "plain comment">>}

Listings == {l \in [1..Cardinality(ScanFiles) -> ScanFiles] : Range(l) = ScanFiles}

InitScan ==
    /\ tree \in [ScanFiles -> SeqsUpTo(LineKinds, ScanLines)]
    /\ listing \in [Invocations -> Listings]
    /\ root_ok = [i \in Invocations |-> TRUE]
    /\ pc = [i \in Invocations |-> "list"]
    /\ unread = [i \in Invocations |-> <<>>]
    /\ stream = [i \in Invocations |-> <<>>]
    /\ Fresh(Invocations)

\* the walk of the root: the entries, put in order
ListRoot(i) ==
    /\ pc[i] = "list"
    /\ unread' = [unread EXCEPT ![i] = SortEntries(listing[i])]
    /\ pc' = [pc EXCEPT ![i] = "scan"]
    /\ UNCHANGED <<root_ok, tree, listing, stream, pos, state, records, current,
                   errors, toggles, todo, sections>>

\* the next file, line by line
ScanFile(i) ==
    /\ pc[i] = "scan"
    /\ unread[i] # <<>>
    /\ stream' = [stream EXCEPT ![i] = @ \o FileAnnotations(tree, Head(unread[i]))]
    /\ unread' = [unread EXCEPT ![i] = Tail(@)]
    /\ UNCHANGED <<root_ok, tree, listing, pos, state, records, current,
                   errors, pc, toggles, todo, sections>>

ScanDone(i) ==
    /\ pc[i] = "scan"
    /\ unread[i] = <<>>
    /\ pc' = [pc EXCEPT ![i] = "scanned"]
    /\ UNCHANGED <<root_ok, tree, listing, unread, stream, pos, state, records, current,
                   errors, toggles, todo, sections>>

NextScan ==
    \/ \E i \in Invs : ListRoot(i)
    \/ \E i \in Invs : ScanFile(i)
    \/ \E i \in Invs : ScanDone(i)

SpecScan == InitScan /\ [][NextScan]_vars

FileRank(f) == Min({k \in DOMAIN FileOrder : FileOrder[k] = f})

\* by file path first, by ascending line number within a file
InScanOrder(s) ==
    \A j, k \in DOMAIN s : j < k =>
        \/ FileRank(s[j].file) < FileRank(s[k].file)
        \/ s[j].file = s[k].file /\ s[j].line < s[k].line

\* C8: two scans of the same tree emit the same RawAnnotation sequence, ordered by
\* file path and then by line number, however the host lists the entries.
C8_ScanDeterministic ==
    /\ \A i \in Invs : InScanOrder(stream[i])
    /\ \A i, j \in Invs : (pc[i] = "scanned" /\ pc[j] = "scanned") => stream[i] = stream[j]

C8_Witness ==
    /\ pc = [i \in Invocations |-> "scanned"]
    /\ listing[1] = <<"b.py", "a.py">>
    /\ listing[2] = <<"a.py", "b.py">>
    /\ Len(stream[1]) = 3
    /\ stream[1][1].file = "a.py"
    /\ stream[1][1].line = 2
    /\ stream[1][2].file = "b.py"

-----------------------------------------------------------------------------
(* Two invocations, interleaved *)

ParPayloads == {<<TOGGLE_NAME, "ENABLE_X">>, <<TOGGLE_DEFAULT, "False">>}

ParStreams == {Located(p) : p \in SeqsUpTo(ParPayloads, ParLen)}

InitPar ==
    /\ root_ok \in [Invocations -> BOOLEAN]
    /\ stream \in [Invocations -> ParStreams]
    /\ pc = [i \in Invocations |-> "find"]
    /\ Quiet(Invocations)
    /\ Fresh(Invocations)

SpecPar == InitPar /\ [][Next]_vars

\* everything one invocation owns
Slot(i) ==
    <<root_ok[i], listing[i], unread[i], stream[i], pos[i], state[i], records[i],
      current[i], errors[i], pc[i], toggles[i], todo[i], sections[i]>>

\* what the invocation has computed so far is what it computes alone
C9_AsAlone ==
    \A i \in Invs :
        LET alone == Assemble(stream[i], ".. toggle_name:")
        IN  /\ pc[i] \in {"find", "iterate", "finished", "aborted"}
            /\ pc[i] = "aborted" <=> (state[i] = "Aborted")
            /\ Returned(i) =>
                  /\ toggles[i] = alone.records
                  /\ errors[i] = alone.errors
                  /\ Len(sections[i]) <= Len(run(stream[i]))
                  /\ sections[i] = SubSeq(run(stream[i]), 1, Len(sections[i]))
            /\ pc[i] = "finished" => sections[i] = run(stream[i])

\* a step changes what one invocation owns and nothing of any other
C9_OwnStateOnly ==
    \A i, j \in Invs : (i # j /\ Slot(i)' # Slot(i)) => Slot(j)' = Slot(j)

\* C9: two invocations whose steps are interleaved each return the mapping, the
\* diagnostics and the sections they return when run alone, and no step of one
\* reads or writes what the other owns; the extension declares itself safe for
\* parallel reading and writing.
C9_Independent ==
    /\ [](C9_AsAlone /\ setup.parallel_read_safe /\ setup.parallel_write_safe)
    /\ [][C9_OwnStateOnly]_vars

C9_Witness ==
    /\ pc = [i \in Invocations |-> "finished"]
    /\ stream[1] # stream[2]
    /\ Len(stream[1]) = 3
    /\ Len(stream[2]) = 3
    /\ DOMAIN toggles[1] = {"ENABLE_X"}
    /\ DOMAIN toggles[2] = {"ENABLE_X"}
    /\ toggles[1]["ENABLE_X"] # toggles[2]["ENABLE_X"]
    /\ sections[1] # sections[2]
    /\ errors[1] # <<>>
    /\ errors[2] = <<>>

=============================================================================
